---- MODULE Spec2Model ----
(***************************************************************************)
(* A state-machine model of HyperGraphs: the CSV loader (load_data), the   *)
(* fit orchestrator (plotter), the exporter (save_point) and the command   *)
(* line driver (main).                                                     *)
(*                                                                         *)
(* Numbers: frequencies are in Hz and voltages in V, all integers here;    *)
(* the time constant tau is counted in microseconds (1e-4 s = 100).        *)
(* Strings stand for the text of CSV cells; Float models float() on them.  *)
(* scipy's curve_fit and csv.Sniffer are library calls: the model keeps    *)
(* their contract (when they raise, what shape they return) and leaves the *)
(* numerical outcome to a nondeterministic choice.                         *)
(***************************************************************************)
EXTENDS Integers, Sequences, FiniteSets, TLC

VARIABLES
    pc,         \* position of the running program
    caller,     \* "none" | "main" (the __main__ driver) | "direct" (a call of the functions with their declared signature)
    exc,        \* the exception that ended the run and the function that raised it
    csvfile,    \* the records csv.reader yields for the opened file
    rdpos,      \* index of the next record the reader yields
    line_num,   \* reader.line_num: physical lines read so far
    lf, lvin, lvout, lphi,   \* the four lists load_data fills
    data,       \* the ExperimentData handed to plotter, None before
    args,       \* the arguments of the plotter call; tau is <<t>>, or <<>> for None
    tau,        \* plotter's local tau
    fn,         \* plotter's locals f1, f2, g1, g2, h1, h2
    fits,       \* the curve_fit calls made so far, in order
    k,          \* the tuple plotter returned, <<>> before
    figure,     \* the axes plotter drew, <<>> before
    stdout,     \* the labels plotter printed
    frequency,  \* save_point's Export Grid, <<>> before
    outfile,    \* rows written to the export file, <<>> while none was written
    call,       \* the arguments of a call of the theory functions, <<>> when there is none
    result      \* what the theory functions returned for call, and which of them were called

ldvars == <<csvfile, rdpos, line_num, lf, lvin, lvout, lphi>>
plvars == <<args, tau, fn, fits, k, figure, stdout>>
spvars == <<frequency, outfile>>
thvars == <<call, result>>

vars == <<pc, caller, exc, data, ldvars, plvars, spvars, thvars>>

None == "None"

\* An exception of the given type, raised in the given function.
Raised(type, where) == [type |-> type, where |-> where]

NoException == Raised("none", "none")

\* ------------------------------------------------------------------ bounds
\* Most records (header included) a CSV file holds.
MaxRows == 3
\* Most Measurement Records of an ExperimentData built by a direct caller.
MaxData == 3

\* ------------------------------------------------------------ CSV content
\* float(s) for the cell texts used here; float() strips surrounding
\* whitespace, so "1\n" parses, and text such as "f" or "x" does not.
FloatTable ==
    ("0" :> 0) @@ ("1" :> 1) @@ ("2" :> 2) @@ ("3" :> 3) @@ ("4" :> 4) @@
    ("10" :> 10) @@ ("20" :> 20) @@ ("30" :> 30) @@ ("1\n" :> 1)

IsFloat(s) == s \in DOMAIN FloatTable

Float(s) == FloatTable[s]

\* A record of the file: its cells and the number of physical lines it spans
\* (a quoted cell holding a line break makes a record span two lines).
Row(cells, nlines) == [cells |-> cells, nlines |-> nlines]

RowPool ==
    { Row(<<"f", "vin", "vout", "phi">>, 1),        \* text, four cells
      Row(<<"f\n(Hz)", "vin", "vout", "phi">>, 2),  \* text, first cell holds a line break
      Row(<<"1\n", "2", "3", "4">>, 2),             \* numeric, first cell ends in a line break
      Row(<<"10", "1", "2", "0">>, 1),
      Row(<<"20", "2", "1", "1">>, 1),
      Row(<<"30", "1", "1", "0", "note">>, 1),      \* a fifth, non-numeric cell
      Row(<<"10", "1", "2">>, 1),                   \* three cells
      Row(<<"10", "x", "2", "0">>, 1) }             \* non-numeric second cell

SeqsUpTo(S, n) == UNION { [1..m -> S] : m \in 0..n }

Files == SeqsUpTo(RowPool, MaxRows)

\* ------------------------------------------------------------- load_data
ExperimentData(v_in, v_out, f, phi) ==
    [v_in |-> v_in, v_out |-> v_out, frequency |-> f, phi |-> phi]

\* csv.Sniffer().sniff(...): raises csv.Error when it cannot determine the
\* delimiter. It always does so on an empty file; on any other content the
\* heuristic's verdict is left open.
SniffOutcomes(file) == IF file = <<>> THEN {FALSE} ELSE BOOLEAN

\* Index (1..4) of the first of the first four cells float() rejects, 5 if none.
RECURSIVE FirstBad(_, _)
FirstBad(cells, i) ==
    IF i > 4 THEN 5
    ELSE IF ~IsFloat(cells[i]) THEN i
    ELSE FirstBad(cells, i + 1)

\* The list after the row's for-loop: cell i was appended iff the loop got to it.
Appended(l, cells, i, bad) == IF i < bad THEN Append(l, Float(cells[i])) ELSE l

\* The width test of load_data's loop.
TooShort(cells) == Len(cells) < 4

\* The header test of load_data's loop.
IsHeader(ln) == ln = 1

LoadOpen ==
    /\ pc = "ld_open"
    /\ lf' = <<>> /\ lvin' = <<>> /\ lvout' = <<>> /\ lphi' = <<>>
    /\ \E ok \in SniffOutcomes(csvfile) :
          IF ok
          THEN /\ pc' = "ld_loop"
               /\ rdpos' = 1
               /\ line_num' = 0
               /\ exc' = exc
          ELSE /\ pc' = "raised"
               /\ exc' = Raised("csv.Error", "load_data")
               /\ UNCHANGED <<rdpos, line_num>>
    /\ UNCHANGED <<caller, csvfile, data, plvars, spvars, thvars>>

LoadRow ==
    /\ pc = "ld_loop"
    /\ rdpos <= Len(csvfile)
    /\ LET row == csvfile[rdpos]
           ln  == line_num + row.nlines
           bad == FirstBad(row.cells, 1)
       IN  /\ rdpos' = rdpos + 1
           /\ line_num' = ln
           /\ IF TooShort(row.cells)
              THEN /\ pc' = "raised"
                   /\ exc' = Raised("ValueError", "load_data")
                   /\ UNCHANGED <<lf, lvin, lvout, lphi>>
              ELSE IF IsHeader(ln)
              THEN UNCHANGED <<pc, exc, lf, lvin, lvout, lphi>>
              ELSE /\ lf'    = Appended(lf,    row.cells, 1, bad)
                   /\ lvin'  = Appended(lvin,  row.cells, 2, bad)
                   /\ lvout' = Appended(lvout, row.cells, 3, bad)
                   /\ lphi'  = Appended(lphi,  row.cells, 4, bad)
                   /\ IF bad <= 4
                      THEN pc' = "raised" /\ exc' = Raised("ValueError", "load_data")
                      ELSE UNCHANGED <<pc, exc>>
    /\ UNCHANGED <<caller, csvfile, data, plvars, spvars, thvars>>

LoadReturn ==
    /\ pc = "ld_loop"
    /\ rdpos > Len(csvfile)
    /\ data' = ExperimentData(lvin, lvout, lf, lphi)
    /\ pc' = "ld_returned"
    /\ UNCHANGED <<caller, exc, ldvars, plvars, spvars, thvars>>

\* ------------------------------------------------- functions.highpass/lowpass
\* A function object: the module that defines it and its name.
Def(module, name) == [module |-> module, name |-> name]

\* highpass.<name>: every function of the package is defined in it.
\* (The package imports its gain functions from ._gain; in this tree the file
\* that defines them is gain.py.)
HighpassAttr(name) == Def("highpass", name)

\* lowpass.<name>: the three theory functions are defined in the package; the
\* three direct estimators are the highpass objects, bound to lowpass names.
LowpassAttr(name) ==
    IF name \in {"calc_gain_direct", "calc_voutcosphi_direct", "calc_voutsinphi_direct"}
    THEN HighpassAttr(name)
    ELSE Def("lowpass", name)

Attr(module, name) ==
    IF module = "highpass" THEN HighpassAttr(name) ELSE LowpassAttr(name)

\* A direct estimator applied to two arrays: pointwise, one value per sample.
\* The values are real numbers; they are kept as terms.
Direct(f, a, b) == [i \in 1..Len(a) |-> [f |-> f, a |-> a[i], b |-> b[i]]]

\* A theory function applied to an array and a parameter vector: pointwise.
Theory(f, x, params) == [i \in 1..Len(x) |-> [f |-> f, x |-> x[i], p |-> params]]

\* ---------------------------------------------------------------- plotter
\* tau in microseconds: 1e-4 s.
DefaultTau == 100

\* plotter's parameters (hilo, verbose, data, tau) and those with a default (tau).
PlotterParams == 4
PlotterDefaults == 1

\* A Python call binds its positional arguments iff there are no more of them
\* than parameters and every parameter without a default gets one.
CallBinds(nargs, nparams, ndefaults) ==
    nargs <= nparams /\ nargs >= nparams - ndefaults

\* Variant of SelectFunctions: the low-pass branch takes its in-phase theory
\* function from the high-pass package.
SelectFunctionsMixed(hilo) ==
    IF hilo
    THEN [f1 |-> HighpassAttr("calc_gain_direct"),
          f2 |-> HighpassAttr("calc_gain_from_theory"),
          g1 |-> HighpassAttr("calc_voutcosphi_direct"),
          g2 |-> HighpassAttr("calc_voutcosphi_from_theory"),
          h1 |-> HighpassAttr("calc_voutsinphi_direct"),
          h2 |-> HighpassAttr("calc_voutsinphi_from_theory")]
    ELSE [f1 |-> LowpassAttr("calc_gain_direct"),
          f2 |-> LowpassAttr("calc_gain_from_theory"),
          g1 |-> LowpassAttr("calc_voutcosphi_direct"),
          g2 |-> HighpassAttr("calc_voutcosphi_from_theory"),
          h1 |-> LowpassAttr("calc_voutsinphi_direct"),
          h2 |-> LowpassAttr("calc_voutsinphi_from_theory")]

\* The if/else that binds f1, f2, g1, g2, h1, h2.
SelectFunctions(hilo) ==
    IF hilo
    THEN [f1 |-> HighpassAttr("calc_gain_direct"),
          f2 |-> HighpassAttr("calc_gain_from_theory"),
          g1 |-> HighpassAttr("calc_voutcosphi_direct"),
          g2 |-> HighpassAttr("calc_voutcosphi_from_theory"),
          h1 |-> HighpassAttr("calc_voutsinphi_direct"),
          h2 |-> HighpassAttr("calc_voutsinphi_from_theory")]
    ELSE [f1 |-> LowpassAttr("calc_gain_direct"),
          f2 |-> LowpassAttr("calc_gain_from_theory"),
          g1 |-> LowpassAttr("calc_voutcosphi_direct"),
          g2 |-> LowpassAttr("calc_voutcosphi_from_theory"),
          h1 |-> LowpassAttr("calc_voutsinphi_direct"),
          h2 |-> LowpassAttr("calc_voutsinphi_from_theory")]

RECURSIVE SumSeq(_)
SumSeq(s) == IF s = <<>> THEN 0 ELSE Head(s) + SumSeq(Tail(s))

\* np.mean of a non-empty array, kept as the fraction num/den.
Mean(a) == [num |-> SumSeq(a), den |-> Len(a)]

\* Variant of CurveFitOutcomes: no sample count makes the fit raise.
CurveFitAnyLength(m, n) == BOOLEAN

\* curve_fit(f, xdata, ydata, p0) with m = len(ydata), n = len(p0): it raises
\* on empty ydata and (least squares, method lm) when there are fewer samples
\* than parameters; otherwise it converges or raises, as the numbers decide.
CurveFitOutcomes(m, n) == IF m = 0 \/ m < n THEN {FALSE} ELSE BOOLEAN

\* The error curve_fit raises when it fails.
CurveFitError(m, n) ==
    IF m = 0 THEN "ValueError" ELSE IF m < n THEN "TypeError" ELSE "RuntimeError"

\* The fitted parameter vector of a converged fit: n values, kept as terms.
Popt(fit, n) == [i \in 1..n |-> [fit |-> fit, param |-> i]]

\* Variant of PhaseP0: the mean is taken of the output voltages.
PhaseP0OfOutput(t, d) == <<t, Mean(d.v_out), 0>>

\* The initial guesses plotter hands to curve_fit.
GainP0(t) == <<t>>
PhaseP0(t, d) == <<t, Mean(d.v_in), 0>>

\* One curve_fit call of plotter, as recorded in fits.
FitCall(fit, f, ydata, p0, ok) ==
    [fit |-> fit, f |-> f, xdata |-> data.frequency, ydata |-> ydata, p0 |-> p0,
     ok |-> ok, popt |-> IF ok THEN Popt(fit, Len(p0)) ELSE None]

\* Variant of AfterFit: the exception is swallowed and plotter goes on.
AfterFitSwallow(ok, at, next) == next

\* Variant of AfterFit: a failed fit is tried again.
AfterFitRetry(ok, at, next) == IF ok THEN next ELSE at

\* Where plotter goes after the curve_fit call made at position at: no
\* try/except surrounds the call, so an exception leaves plotter and its caller.
AfterFit(ok, at, next) == IF ok THEN next ELSE "raised"

\* One of plotter's three computations: the direct estimate, then the fit.
Fit(fit, at, next, f, ydata, p0) ==
    /\ \E ok \in CurveFitOutcomes(Len(ydata), Len(p0)) :
          /\ fits' = Append(fits, FitCall(fit, f, ydata, p0, ok))
          /\ pc' = AfterFit(ok, at, next)
          /\ exc' = IF ok THEN exc
                    ELSE Raised(CurveFitError(Len(ydata), Len(p0)), "plotter")
    /\ UNCHANGED <<caller, data, ldvars, args, tau, fn, k, figure, stdout, spvars, thvars>>

PlotterSelect ==
    /\ pc = "pl_select"
    /\ tau' = IF args.tau = <<>> THEN DefaultTau ELSE args.tau[1]
    /\ fn' = SelectFunctions(args.hilo)
    /\ pc' = "pl_gain"
    /\ UNCHANGED <<caller, exc, data, ldvars, args, fits, k, figure, stdout, spvars, thvars>>

FitGain ==
    /\ pc = "pl_gain"
    /\ Fit("gain", "pl_gain", "pl_cos", fn.f2,
           Direct(fn.f1, data.v_in, data.v_out), GainP0(tau))

FitCos ==
    /\ pc = "pl_cos"
    /\ Fit("voutcosphi", "pl_cos", "pl_sin", fn.g2,
           Direct(fn.g1, data.v_out, data.phi), PhaseP0(tau, data))

FitSin ==
    /\ pc = "pl_sin"
    /\ Fit("voutsinphi", "pl_sin", "pl_plot", fn.h2,
           Direct(fn.h1, data.v_out, data.phi), PhaseP0(tau, data))

\* What verbose mode prints: one labelled block per fit.
VerboseLines ==
    <<"Gain Parameter:", "V_out cos Phi", "V_out sin Phi">>

\* The three axes: the measured points and the fitted curve drawn on each.
Axes(fs) ==
    [i \in 1..3 |-> [points |-> fs[i].ydata, curve |-> fs[i].f, params |-> fs[i].popt]]

PlotterFinish ==
    /\ pc = "pl_plot"
    /\ figure' = Axes(fits)
    /\ stdout' = IF args.verbose THEN VerboseLines ELSE stdout
    /\ k' = <<fits[1].popt, fits[2].popt, fits[3].popt, fn.f2, fn.g2, fn.h2>>
    /\ pc' = "pl_returned"
    /\ UNCHANGED <<caller, exc, data, ldvars, args, tau, fn, fits, spvars, thvars>>

\* ------------------------------------------------------------- save_point
\* Variant of Arange: stop itself is produced when a step lands on it.
ArangeInclusive(start, stop, step) ==
    [i \in 1..((stop - start) \div step + 1) |-> start + (i - 1) * step]

\* np.arange(start, stop, step): start, start+step, ... below stop;
\* ceil((stop - start) / step) values.
Arange(start, stop, step) ==
    [i \in 1..((stop - start + step - 1) \div step) |-> start + (i - 1) * step]

\* The ten sub-ranges r1..r10 of save_point.
SubRanges ==
    << Arange(10, 50, 1),
       Arange(50, 100, 2),
       Arange(100, 500, 10),
       Arange(500, 1000, 20),
       Arange(1000, 5000, 100),
       Arange(5000, 10000, 200),
       Arange(10000, 50000, 1000),
       Arange(50000, 100000, 2000),
       Arange(100000, 500000, 10000),
       Arange(500000, 1000000, 20000) >>

\* Variant of Unpack: the last sub-range is left out.
RECURSIVE UnpackWithoutLast(_)
UnpackWithoutLast(rs) ==
    IF Len(rs) <= 1 THEN <<>> ELSE Head(rs) \o UnpackWithoutLast(Tail(rs))

\* np.array((*r1, ..., *r10,)): the sub-ranges unpacked one after the other.
RECURSIVE Unpack(_)
Unpack(rs) == IF rs = <<>> THEN <<>> ELSE Head(rs) \o Unpack(Tail(rs))

ExportGrid == Unpack(SubRanges)

HeaderRow == <<"f / Hz", "G / dB", "V(out) cos Phi / V", "V(out) sin Phi / V">>

\* save_point's parameters (target, fit_gain, fit_voutcosphi, fit_voutsinphi,
\* f2, g2, h2); none has a default.
SavePointParams == 7

\* Variant of ExportRows: the loop stops one row early.
ExportRowsShort(freq, gain, voutcosphi, voutsinphi) ==
    [i \in 1..(Len(gain) - 1) |-> <<freq[i], gain[i], voutcosphi[i], voutsinphi[i]>>]

\* The rows the for-loop writes: one per index of gain.
ExportRows(freq, gain, voutcosphi, voutsinphi) ==
    [i \in 1..Len(gain) |-> <<freq[i], gain[i], voutcosphi[i], voutsinphi[i]>>]

SaveGrid ==
    /\ pc = "sp_grid"
    /\ frequency' = ExportGrid
    /\ pc' = "sp_open"
    /\ UNCHANGED <<caller, exc, data, ldvars, plvars, outfile, thvars>>

SaveHeader ==
    /\ pc = "sp_open"
    /\ outfile' = <<HeaderRow>>
    /\ pc' = "sp_rows"
    /\ UNCHANGED <<caller, exc, data, ldvars, plvars, frequency, thvars>>

SaveRows ==
    /\ pc = "sp_rows"
    /\ LET fit_gain       == k[1]
           fit_voutcosphi == k[2]
           fit_voutsinphi == k[3]
           f2 == k[4]
           g2 == k[5]
           h2 == k[6]
           gain       == Theory(f2, frequency, fit_gain)
           voutcosphi == Theory(g2, frequency, fit_voutcosphi)
           voutsinphi == Theory(h2, frequency, fit_voutsinphi)
       IN  outfile' = outfile \o ExportRows(frequency, gain, voutcosphi, voutsinphi)
    /\ pc' = "done"
    /\ UNCHANGED <<caller, exc, data, ldvars, plvars, frequency, thvars>>

\* ------------------------------------------------------------------- main
\* Values of the time constant a caller passes (microseconds).
Taus == {DefaultTau, 50}

Outputs == {None, "out.csv"}

\* The positional arguments of main's plotter call:
\* hilo, verbose, data, args.tau, args.nophi1.
MainCallArgs == 5

MainStart ==
    /\ pc = "start"
    /\ caller' = "main"
    /\ csvfile' \in Files
    /\ pc' = "ld_open"
    /\ UNCHANGED <<exc, data, rdpos, line_num, lf, lvin, lvout, lphi, plvars, spvars, thvars>>

\* hilo and verbose are set from the parsed flags (the raise of the else
\* branch cannot happen: argparse requires one of --highpass and --lowpass),
\* then plotter is called.
MainCallPlotter ==
    /\ pc = "ld_returned"
    /\ caller = "main"
    /\ \E hilo \in BOOLEAN, verbose \in BOOLEAN, t \in Taus,
          nophi1 \in BOOLEAN, output \in Outputs :
          args' = [hilo |-> hilo, verbose |-> verbose, tau |-> <<t>>,
                   nophi1 |-> nophi1, output |-> output, nargs |-> MainCallArgs]
    /\ IF CallBinds(MainCallArgs, PlotterParams, PlotterDefaults)
       THEN pc' = "pl_select" /\ exc' = exc
       ELSE pc' = "raised" /\ exc' = Raised("TypeError", "main")
    /\ UNCHANGED <<caller, data, ldvars, tau, fn, fits, k, figure, stdout, spvars, thvars>>

\* --------------------------------------------------------- a direct caller
\* Measurement Records a direct caller builds its ExperimentData from.
MeasurementPool ==
    { [frequency |-> 10, v_in |-> 1, v_out |-> 2, phi |-> 0],
      [frequency |-> 55, v_in |-> 2, v_out |-> 1, phi |-> 1] }

Column(recs, field) == [i \in 1..Len(recs) |-> recs[i][field]]

DataSets ==
    { ExperimentData(Column(r, "v_in"), Column(r, "v_out"),
                     Column(r, "frequency"), Column(r, "phi")) :
      r \in SeqsUpTo(MeasurementPool, MaxData) }

\* plotter(hilo, verbose, data) or plotter(hilo, verbose, data, tau), as its
\* signature declares it, on an ExperimentData of any length.
DirectCallPlotter ==
    /\ pc = "start"
    /\ caller' = "direct"
    /\ data' \in DataSets
    /\ \E hilo \in BOOLEAN, verbose \in BOOLEAN,
          t \in {<<>>} \cup {<<x>> : x \in Taus}, output \in Outputs :
          LET nargs == 3 + Len(t)
          IN  /\ args' = [hilo |-> hilo, verbose |-> verbose, tau |-> t,
                          nophi1 |-> FALSE, output |-> output, nargs |-> nargs]
              /\ IF CallBinds(nargs, PlotterParams, PlotterDefaults)
                 THEN pc' = "pl_select" /\ exc' = exc
                 ELSE pc' = "raised" /\ exc' = Raised("TypeError", "direct")
    /\ UNCHANGED <<ldvars, tau, fn, fits, k, figure, stdout, spvars, thvars>>

\* if args.output is not None: save_point(args.output, *k)
CallSavePoint ==
    /\ pc = "pl_returned"
    /\ IF args.output = None
       THEN pc' = "done" /\ exc' = exc
       ELSE IF CallBinds(1 + Len(k), SavePointParams, 0)
       THEN pc' = "sp_grid" /\ exc' = exc
       ELSE pc' = "raised" /\ exc' = Raised("TypeError", caller)
    /\ UNCHANGED <<caller, data, ldvars, plvars, spvars, thvars>>

\* ------------------------------------------------------------ the program
\* The program before main or a caller has done anything.
ProgramInit ==
    /\ pc = "start"
    /\ caller = "none"
    /\ exc = NoException
    /\ csvfile = <<>>
    /\ rdpos = 1
    /\ line_num = 0
    /\ lf = <<>> /\ lvin = <<>> /\ lvout = <<>> /\ lphi = <<>>
    /\ data = None
    /\ args = None
    /\ tau = None
    /\ fn = None
    /\ fits = <<>>
    /\ k = <<>>
    /\ figure = <<>>
    /\ stdout = <<>>
    /\ frequency = <<>>
    /\ outfile = <<>>

\* No theory function was called yet.
NoResult == [done |-> {}, gain |-> <<>>, voutcosphi |-> <<>>, voutsinphi |-> <<>>]

Init ==
    /\ ProgramInit
    /\ call = <<>>
    /\ result = NoResult

Next ==
    \/ MainStart
    \/ LoadOpen
    \/ LoadRow
    \/ LoadReturn
    \/ MainCallPlotter
    \/ DirectCallPlotter
    \/ PlotterSelect
    \/ FitGain
    \/ FitCos
    \/ FitSin
    \/ PlotterFinish
    \/ CallSavePoint
    \/ SaveGrid
    \/ SaveHeader
    \/ SaveRows

Spec == Init /\ [][Next]_vars

\* ------------------------------------------------------- the theory models
\* Real numbers are kept exact, as fractions <<n, d>> with d > 0 in lowest
\* terms. The time constant is counted in units of 1/(2 pi) s, so that
\* 2 * np.pi * tau is the fraction tau itself, and the inputs are taken where
\* the square roots the functions draw are fractions too.
RECURSIVE Gcd(_, _)
Gcd(a, b) == IF b = 0 THEN a ELSE Gcd(b, a % b)

Abs(a) == IF a < 0 THEN -a ELSE a

Frac(n, d) ==
    LET g == Gcd(Abs(n), Abs(d))
    IN  IF d < 0 THEN << -(n \div g), -(d \div g) >> ELSE << n \div g, d \div g >>

RInt(n) == Frac(n, 1)
RNeg(a) == << -a[1], a[2] >>

\* Sums go over the least common denominator and products cancel crosswise
\* first, so that no intermediate number is larger than it has to be.
RAdd(a, b) ==
    LET g == Gcd(a[2], b[2])
    IN  Frac(a[1] * (b[2] \div g) + b[1] * (a[2] \div g), (a[2] \div g) * b[2])

RSub(a, b) == RAdd(a, RNeg(b))

RMul(a, b) ==
    LET g1 == Gcd(Abs(a[1]), b[2])
        g2 == Gcd(Abs(b[1]), a[2])
    IN  Frac((a[1] \div g1) * (b[1] \div g2), (a[2] \div g2) * (b[2] \div g1))

RDiv(a, b) == RMul(a, Frac(b[2], b[1]))

RECURSIVE RPow(_, _)
RPow(a, e) == IF e = 0 THEN RInt(1) ELSE RMul(a, RPow(a, e - 1))

\* The root of a perfect square.
ISqrt(m) == CHOOSE r \in 0..m : r * r = m

\* np.sqrt of a fraction whose root is a fraction.
RSqrt(a) == << ISqrt(a[1]), ISqrt(a[2]) >>

\* np.cos and np.sin at the phase offsets used here.
Cos(phi) == CASE phi = 0 -> RInt(1)
Sin(phi) == CASE phi = 0 -> RInt(0)

\* coef * np.log10(arg), kept as a term.
Log10Times(coef, arg) == [coef |-> coef, arg |-> arg]

\* highpass.calc_gain_from_theory
HighpassGainTheory(freq, t) ==
    LET omegatau    == RMul(freq, t)
        squared     == RAdd(RPow(RDiv(RInt(1), omegatau), 2), RInt(1))
        denominator == RSqrt(squared)
    IN  Log10Times(20, RDiv(RInt(1), denominator))

\* highpass.calc_voutcosphi_from_theory
HighpassCosTheory(freq, t, v_in, phi_1) ==
    LET omegatau  == RMul(t, freq)
        den       == RSqrt(RAdd(RPow(omegatau, 2), RInt(1)))
        sine      == RDiv(RInt(1), den)
        cosine    == RDiv(RNeg(omegatau), den)
        cosineval == RSub(RMul(cosine, Cos(phi_1)), RMul(sine, Sin(phi_1)))
        vout      == RDiv(v_in, RSqrt(RAdd(RDiv(RInt(1), RPow(omegatau, 2)), RInt(1))))
    IN  RMul(vout, cosineval)

\* highpass.calc_voutsinphi_from_theory
HighpassSinTheory(freq, t, v_in, phi_1) ==
    LET omegatau == RMul(t, freq)
        den      == RSqrt(RAdd(RPow(omegatau, 2), RInt(1)))
        sine     == RDiv(RInt(1), den)
        cosine   == RDiv(RNeg(omegatau), den)
        sineval  == RAdd(RMul(sine, Cos(phi_1)), RMul(cosine, Sin(phi_1)))
        vout     == RDiv(v_in, RSqrt(RAdd(RDiv(RInt(1), RPow(omegatau, 2)), RInt(1))))
    IN  RMul(vout, sineval)

\* Variant of LowpassGainTheory: the factor of the high-pass formula.
LowpassGainTheoryTwenty(freq, t) ==
    LET tauomega == RMul(t, freq)
    IN  Log10Times(20, RDiv(RInt(1), RAdd(RPow(tauomega, 2), RInt(1))))

\* lowpass.calc_gain_from_theory
LowpassGainTheory(freq, t) ==
    LET tauomega == RMul(t, freq)
    IN  Log10Times(10, RDiv(RInt(1), RAdd(RPow(tauomega, 2), RInt(1))))

\* lowpass.calc_voutcosphi_from_theory
LowpassCosTheory(freq, t, v_in, phi_1) ==
    LET tauomega  == RMul(t, freq)
        den       == RSqrt(RAdd(RPow(tauomega, 2), RInt(1)))
        cosine    == RDiv(RInt(1), den)
        sine      == RDiv(tauomega, den)
        cosineval == RSub(RMul(cosine, Cos(phi_1)), RMul(sine, Sin(phi_1)))
        v_out     == RDiv(v_in, den)
    IN  RMul(v_out, cosineval)

\* lowpass.calc_voutsinphi_from_theory
LowpassSinTheory(freq, t, v_in, phi_1) ==
    LET tauomega == RMul(t, freq)
        den      == RSqrt(RAdd(RPow(tauomega, 2), RInt(1)))
        cosine   == RDiv(RInt(1), den)
        sine     == RDiv(RNeg(tauomega), den)
        sineval  == RAdd(RMul(sine, Cos(phi_1)), RMul(cosine, Sin(phi_1)))
        v_out    == RDiv(v_in, den)
    IN  RMul(v_out, sineval)

\* A call of a gain function object.
CallGain(f, freq, t) ==
    CASE f = Def("highpass", "calc_gain_from_theory") -> HighpassGainTheory(freq, t)
      [] f = Def("lowpass", "calc_gain_from_theory")  -> LowpassGainTheory(freq, t)

\* A call of an in-phase or quadrature function object.
CallPhase(f, freq, t, v_in, phi_1) ==
    CASE f = Def("highpass", "calc_voutcosphi_from_theory") -> HighpassCosTheory(freq, t, v_in, phi_1)
      [] f = Def("highpass", "calc_voutsinphi_from_theory") -> HighpassSinTheory(freq, t, v_in, phi_1)
      [] f = Def("lowpass", "calc_voutcosphi_from_theory")  -> LowpassCosTheory(freq, t, v_in, phi_1)
      [] f = Def("lowpass", "calc_voutsinphi_from_theory")  -> LowpassSinTheory(freq, t, v_in, phi_1)

\* Largest frequency (Hz) the theory functions are called with.
MaxFreq == 3

\* Values of omega * tau whose square plus one is the square of a fraction.
OmegaTaus ==
    { Frac(3, 4), Frac(4, 3), Frac(5, 12), Frac(12, 5), Frac(8, 15), Frac(15, 8) }

\* Input amplitudes: negative, zero and positive.
Amplitudes == { RInt(-2), RInt(0), RInt(1), Frac(3, 2), RInt(5) }

\* The calls: a filter kind, a frequency > 0, a time constant > 0 that gives
\* one of OmegaTaus at that frequency, an amplitude, and phi_1 = 0.
TheoryCalls ==
    { [kind |-> kd, frequency |-> RInt(f), tau |-> RDiv(x, RInt(f)), v_in |-> v, phi_1 |-> 0] :
      kd \in {"highpass", "lowpass"}, f \in 1..MaxFreq, x \in OmegaTaus, v \in Amplitudes }

TheoryInit ==
    /\ ProgramInit
    /\ call \in TheoryCalls
    /\ result = NoResult

\* One of the three theory functions of the call's kind is evaluated.
Evaluate(name, value) ==
    /\ result' = [result EXCEPT !.done = @ \cup {name}, ![name] = value]
    /\ UNCHANGED <<pc, caller, exc, data, ldvars, plvars, spvars, call>>

EvalGain ==
    /\ "gain" \notin result.done
    /\ Evaluate("gain",
                CallGain(Attr(call.kind, "calc_gain_from_theory"),
                         call.frequency, call.tau))

EvalInPhase ==
    /\ "voutcosphi" \notin result.done
    /\ Evaluate("voutcosphi",
                CallPhase(Attr(call.kind, "calc_voutcosphi_from_theory"),
                          call.frequency, call.tau, call.v_in, call.phi_1))

EvalQuadrature ==
    /\ "voutsinphi" \notin result.done
    /\ Evaluate("voutsinphi",
                CallPhase(Attr(call.kind, "calc_voutsinphi_from_theory"),
                          call.frequency, call.tau, call.v_in, call.phi_1))

TheoryNext ==
    \/ EvalGain
    \/ EvalInPhase
    \/ EvalQuadrature

TheorySpec == TheoryInit /\ [][TheoryNext]_vars

\* ------------------------------------------------------------- properties
\* The order in which plotter makes its curve_fit calls.
FitOrder == <<"gain", "voutcosphi", "voutsinphi">>

FitNames == {fits[i].fit : i \in 1..Len(fits)}

SomeFitFailed == \E i \in 1..Len(fits) : ~fits[i].ok

\* C1, as stated: in every run in which one of the three curve_fit calls
\* fails, the other two fits are attempted as well.
C1_OtherFitsStillAttempted ==
    (pc = "raised" /\ SomeFitFailed) => FitNames = {"gain", "voutcosphi", "voutsinphi"}

\* C1, amended: the fits are attempted in the order gain, in-phase,
\* quadrature, each only after every earlier one converged; a failing fit ends
\* plotter with its exception, so only the last attempted fit can be a failed
\* one and the fits after it are not attempted.
C1_FitsAttemptedInOrderUntilFailure ==
    /\ Len(fits) <= 3
    /\ \A i \in 1..Len(fits) :
          /\ fits[i].fit = FitOrder[i]
          /\ (i < Len(fits) => fits[i].ok)
    /\ (SomeFitFailed => pc = "raised")

\* C1 witness: the gain fit converged, the in-phase fit failed, and plotter
\* ended without attempting the quadrature fit.
C1_Witness ==
    /\ pc = "raised"
    /\ Len(fits) = 2
    /\ fits[1].ok
    /\ ~fits[2].ok

\* C2, as stated: main's call of plotter completes (it does not raise at the
\* call), and the in-phase and quadrature fits of a run started by main have 2
\* free parameters when --nophi1 is set and 3 when it is not.
C2_NoPhi1SelectsFreeParameters ==
    /\ ~(caller = "main" /\ exc = Raised("TypeError", "main"))
    /\ (caller = "main" =>
          \A i \in 1..Len(fits) :
             fits[i].fit \in {"voutcosphi", "voutsinphi"} =>
                Len(fits[i].p0) = IF args.nophi1 THEN 2 ELSE 3)

\* C3: once a fit has failed, plotter has ended with the fit's exception: the
\* failed call is the last one made, no fit was called twice, plotter returned
\* nothing, save_point was not entered and no export row was written.
C3_FitFailureSurfaces ==
    SomeFitFailed =>
        /\ pc = "raised"
        /\ exc.where = "plotter"
        /\ exc.type \in {"ValueError", "TypeError", "RuntimeError"}
        /\ ~fits[Len(fits)].ok
        /\ \A i, j \in 1..Len(fits) : fits[i].fit = fits[j].fit => i = j
        /\ \A i \in 1..Len(fits) : ~fits[i].ok => fits[i].popt = None
        /\ k = <<>>
        /\ frequency = <<>>
        /\ outfile = <<>>

\* C3 witness: an export was asked for, the first fit did not converge, and
\* the run ended in plotter.
C3_Witness ==
    /\ pc = "raised"
    /\ exc = Raised("RuntimeError", "plotter")
    /\ args.output # None
    /\ Len(fits) = 1
    /\ ~fits[1].ok

\* Positions plotter and its caller can be at once the gain fit was made.
PastGainFit ==
    {"pl_cos", "pl_sin", "pl_plot", "pl_returned", "sp_grid", "sp_open", "sp_rows", "done"}

\* C4: when plotter runs on a zero-length Measurement Set, the gain fit is the
\* only fit made, it raises, and plotter returns nothing, for both filter kinds.
C4_EmptyDataRaisesAtGainFit ==
    ((pc \in PastGainFit \/ (pc = "raised" /\ exc.where = "plotter"))
        /\ Len(data.frequency) = 0) =>
        /\ pc = "raised"
        /\ Len(fits) = 1
        /\ fits[1].fit = "gain"
        /\ ~fits[1].ok
        /\ k = <<>>

\* C4 witness: plotter was called for a low-pass filter with empty arrays and
\* the gain fit raised.
C4_Witness ==
    /\ pc = "raised"
    /\ exc.where = "plotter"
    /\ Len(data.frequency) = 0
    /\ ~args.hilo
    /\ fits[1].fit = "gain"

RECURSIVE SumLens(_)
SumLens(rs) == IF rs = <<>> THEN 0 ELSE Len(Head(rs)) + SumLens(Tail(rs))

\* Number of grid points before sub-range j.
Offset(j) == SumLens(SubSeq(SubRanges, 1, j - 1))

\* C5: the Export Grid is r1..r10 one after the other, and every grid value is
\* greater than the one before it.
C5_GridIsStrictlyIncreasingConcatenation ==
    frequency # <<>> =>
        /\ Len(frequency) = SumLens(SubRanges)
        /\ \A j \in 1..Len(SubRanges) : \A i \in 1..Len(SubRanges[j]) :
              frequency[Offset(j) + i] = SubRanges[j][i]
        /\ \A i \in 1..(Len(frequency) - 1) : frequency[i] < frequency[i + 1]

\* C5 witness: the grid was built and the boundary between r1 and r2 is in it.
C5_Witness ==
    /\ pc = "sp_open"
    /\ Len(frequency) > 41
    /\ frequency[40] = 49
    /\ frequency[41] = 50

\* C6, as stated: the grid starts at 10, ends at about 990000 or more, and its
\* length, the sum of the ten sizes, is about 170 (taken as 170 give or take 20).
C6_GridEndsNear990000WithAbout170Points ==
    frequency # <<>> =>
        /\ frequency[1] = 10
        /\ frequency[Len(frequency)] >= 990000
        /\ Len(frequency) = SumLens(SubRanges)
        /\ Len(frequency) \in 150..190

\* C6, amended: the grid starts at 10, ends at 980000, and its length is the
\* sum of the ten sizes, 325 (five sub-ranges of 40 points and five of 25).
C6_GridFirstLastLength ==
    frequency # <<>> =>
        /\ frequency[1] = 10
        /\ frequency[Len(frequency)] = 980000
        /\ Len(frequency) = SumLens(SubRanges)
        /\ Len(frequency) = 325
        /\ \A j \in 1..Len(SubRanges) :
              Len(SubRanges[j]) = IF j % 2 = 1 THEN 40 ELSE 25

\* C6 witness: save_point has written its rows over a grid of 325 points.
C6_Witness ==
    /\ pc = "done"
    /\ Len(frequency) = 325
    /\ frequency[325] = 980000

Kind == IF args.hilo THEN "highpass" ELSE "lowpass"

DirectNames == <<"calc_gain_direct", "calc_voutcosphi_direct", "calc_voutsinphi_direct">>

TheoryNames ==
    <<"calc_gain_from_theory", "calc_voutcosphi_from_theory", "calc_voutsinphi_from_theory">>

\* C7: once plotter has bound its six functions, each is the one the selected
\* kind's package exports under its name, the three theory functions are
\* defined in that package, every fit was made with that kind's theory function
\* on that kind's direct estimates, and the handles plotter returns are the
\* functions the three fits were made with.
C7_FunctionsOfSelectedKindOnly ==
    (pc = "pl_gain" \/ Len(fits) > 0) =>
        /\ <<fn.f1, fn.g1, fn.h1>> = [i \in 1..3 |-> Attr(Kind, DirectNames[i])]
        /\ <<fn.f2, fn.g2, fn.h2>> = [i \in 1..3 |-> Attr(Kind, TheoryNames[i])]
        /\ \A f \in {fn.f2, fn.g2, fn.h2} : f.module = Kind
        /\ \A i \in 1..Len(fits) :
              /\ fits[i].f = Attr(Kind, TheoryNames[i])
              /\ \A j \in 1..Len(fits[i].ydata) :
                    fits[i].ydata[j].f = Attr(Kind, DirectNames[i])
        /\ (k # <<>> => <<k[4], k[5], k[6]>> = <<fits[1].f, fits[2].f, fits[3].f>>)

\* C7 witness: plotter returned for a low-pass run, after three fits.
C7_Witness ==
    /\ pc = "pl_returned"
    /\ ~args.hilo
    /\ Len(fits) = 3
    /\ k # <<>>

\* A record load_data must reject as a data row: fewer than four cells, or a
\* cell among the first four that is not a number.
BadDataRow(row) == Len(row.cells) < 4 \/ \E i \in 1..4 : ~IsFloat(row.cells[i])

HasBadDataRow == \E i \in 2..Len(csvfile) : BadDataRow(csvfile[i])

\* C8, as stated: load_data does not return when a data row (a record after
\* the first) is too short or not numeric, and the first record, the header,
\* is skipped: reading it raises nothing and appends nothing to the lists.
\* The statement is taken in its weakest reading: the type of the exception
\* is left open, and the header clause is asked only of headers of four or
\* more cells. It fails even so.
C8_BadRowsRejectedHeaderSkipped ==
    caller = "main" =>
        /\ (pc = "ld_returned" => ~HasBadDataRow)
        /\ (rdpos = 2 /\ Len(csvfile[1].cells) >= 4 =>
              /\ ~(pc = "raised" /\ exc.where = "load_data")
              /\ lf = <<>> /\ lvin = <<>> /\ lvout = <<>> /\ lphi = <<>>)

\* C9, as stated: when load_data returns, each of the four arrays has one
\* entry per record after the header, and entry i holds the numbers of cells
\* 1 to 4 of the i-th record after the header.
C9_ArraysHoldTheDataRows ==
    pc = "ld_returned" =>
        /\ \A a \in {data.frequency, data.v_in, data.v_out, data.phi} :
              Len(a) = Len(csvfile) - 1
        /\ \A i \in 1..(Len(csvfile) - 1) :
              /\ data.frequency[i] = Float(csvfile[i + 1].cells[1])
              /\ data.v_in[i]      = Float(csvfile[i + 1].cells[2])
              /\ data.v_out[i]     = Float(csvfile[i + 1].cells[3])
              /\ data.phi[i]       = Float(csvfile[i + 1].cells[4])

GridValues == {ExportGrid[i] : i \in 1..Len(ExportGrid)}

AmplitudeRatioSquared(gain) == RPow(gain.arg, gain.coef \div 10)

AllEvaluated == result.done = {"gain", "voutcosphi", "voutsinphi"}

\* C11: for both filter kinds, at phi_1 = 0, the squares of the in-phase and
\* the quadrature value add up to the square of v_in_amplitude times the
\* amplitude ratio of the same kind's gain.
C11_InPhaseAndQuadratureMatchGain ==
    AllEvaluated =>
        /\ result.gain.coef % 10 = 0
        /\ RAdd(RPow(result.voutcosphi, 2), RPow(result.voutsinphi, 2))
              = RMul(RPow(call.v_in, 2), AmplitudeRatioSquared(result.gain))

\* C11 witness: the three low-pass functions were evaluated at omega * tau =
\* 3/4 for an amplitude of 3/2, and neither component is zero.
C11_Witness ==
    /\ AllEvaluated
    /\ call.kind = "lowpass"
    /\ call.v_in = Frac(3, 2)
    /\ RMul(call.frequency, call.tau) = Frac(3, 4)
    /\ result.voutcosphi = Frac(24, 25)
    /\ result.voutsinphi = Frac(-18, 25)

\* The time constant plotter starts from: the caller's, or 1e-4 s when the
\* caller passed none.
StartTau == IF args.tau = <<>> THEN 100 ELSE args.tau[1]

\* C12: every gain fit is started from (tau), every in-phase and quadrature
\* fit from (tau, mean(v_in), 0), tau being the caller's time constant or
\* 1e-4 s; so the two phase fits start from the same guess, and no guess holds
\* a value fitted earlier.
C12_InitialGuessesFromInputsOnly ==
    \A i \in 1..Len(fits) :
       /\ fits[i].fit = "gain" => fits[i].p0 = <<StartTau>>
       /\ fits[i].fit \in {"voutcosphi", "voutsinphi"} =>
             /\ Len(fits[i].p0) = 3
             /\ fits[i].p0[1] = StartTau
             /\ fits[i].p0[2].num = SumSeq(data.v_in)
             /\ fits[i].p0[2].den = Len(data.v_in)
             /\ fits[i].p0[3] = 0
       /\ \A j \in 1..Len(fits) :
             {fits[i].fit, fits[j].fit} = {"voutcosphi", "voutsinphi"} =>
                fits[i].p0 = fits[j].p0

\* C12 witness: all three fits were made in a call that passed no time
\* constant, on data whose input and output voltages have different means.
C12_Witness ==
    /\ Len(fits) = 3
    /\ args.tau = <<>>
    /\ fits[1].p0 = <<100>>
    /\ fits[3].p0[1] = 100
    /\ SumSeq(data.v_in) # SumSeq(data.v_out)

====
